---- MODULE Spec2Model ----
(***************************************************************************)
(* State machine of the single-file component src/vue-notes.vue: four refs *)
(* (name, status, tasks, newTask), one computed (taskCount), one watcher   *)
(* on status, three command handlers and the mount-time loader.            *)
(*                                                                         *)
(* Text values are sequences of one-character strings, so that trim() is   *)
(* computed and not assumed.  One event-loop turn is a handler step        *)
(* followed by the scheduler's flush: the queued watcher job first, the    *)
(* component's re-render after it.  A new handler (a DOM event, a promise  *)
(* continuation of the loader) only starts when the flush queue is empty.  *)
(***************************************************************************)
EXTENDS Integers, Sequences, FiniteSets, TLC

VARIABLES
    name,            \* ref, line 9
    status,          \* ref, line 10
    tasks,           \* ref, line 11
    newTask,         \* ref, line 12 (v-model of the text input)
    taskCountCache,  \* cached value of the computed, line 16
    taskCountDirty,  \* the computed must be re-evaluated on its next read
    watchOld,        \* the value of status the watcher saw last
    queue,           \* scheduler jobs waiting for the flush: "watch", "render"
    view,            \* what the last render put on screen
    log,             \* console.log output, in order
    loaderPc,        \* position of the onMounted callback
    response,        \* the Response the loader holds while awaiting json()
    uncaught,        \* an exception escaped a handler
    statusHist,      \* history: status after construction and after each toggle
    requests,        \* history: number of fetch() calls issued
    loaderWrites,    \* history: number of assignments to tasks by the loader
    userActed,       \* history: a command (toggle, add, delete) has been invoked
    aimed,           \* the row of the screen the user has picked for a click
    last             \* history: the last handler step and the state it started from

vars == <<name, status, tasks, newTask, taskCountCache, taskCountDirty,
          watchOld, queue, view, log, loaderPc, response, uncaught,
          statusHist, requests, loaderWrites, userActed, aimed, last>>

----------------------------------------------------------------------------
(* Bounds *)

MaxTasks == 5
MaxToggles == 5
MaxFetch == 2

----------------------------------------------------------------------------
(* Text *)

Whitespace == {" ", "\t", "\n"}

\* The value of a missing property; no text equals it (texts hold single characters).
Undefined == <<"undefined">>

IsString(v) == v # Undefined

RECURSIVE TrimStart(_)
TrimStart(s) ==
    IF s # <<>> /\ Head(s) \in Whitespace THEN TrimStart(Tail(s)) ELSE s

RECURSIVE TrimEnd(_)
TrimEnd(s) ==
    IF s # <<>> /\ s[Len(s)] \in Whitespace
    THEN TrimEnd(SubSeq(s, 1, Len(s) - 1))
    ELSE s

\* String.prototype.trim
Trim(s) == TrimEnd(TrimStart(s))

TaskOne == <<"T", "a", "s", "k", " ", "O", "n", "e">>
TaskTwo == <<"T", "a", "s", "k", " ", "T", "w", "o">>
TaskThree == <<"T", "a", "s", "k", " ", "T", "h", "r", "e", "e">>

InitialName == <<"J", "o", "h", "n", " ", "D", "o", "e">>
InitialTasks == <<TaskOne, TaskTwo, TaskThree>>

\* What the user can have in the text input.
Inputs ==
    { <<>>, <<"\t", " ">>, <<" ", "a", " ">> }

StatusValues == {"active", "pending", "inactive"}

----------------------------------------------------------------------------
(* The remote endpoint: what fetch() can settle with *)

TitleX == <<"X">>
TitleY == <<"Y">>
TitleBlank == <<" ">>

Items ==
    { [kind |-> "record", hasTitle |-> TRUE, title |-> TitleX],
      [kind |-> "record", hasTitle |-> TRUE, title |-> TitleY],
      [kind |-> "record", hasTitle |-> TRUE, title |-> TitleBlank],
      [kind |-> "record", hasTitle |-> FALSE, title |-> <<>>],
      [kind |-> "null", hasTitle |-> FALSE, title |-> <<>>] }

ItemSeqs == UNION { [1..n -> Items] : n \in 0..MaxFetch }

\* What response.json() can resolve with: a JSON value that is no array (an
\* object, null, a number), or a JSON array.
JsonValues ==
    { [kind |-> "object", items |-> <<>>] }
    \cup { [kind |-> "array", items |-> s] : s \in ItemSeqs }

\* A body that is not JSON: response.json() rejects.
InvalidBody == [kind |-> "invalid", items |-> <<>>]

\* fetch() has not resolved.
NoResponse == [ok |-> FALSE]

----------------------------------------------------------------------------
(* Log entries *)

StatusLog(oldVal, newVal) == [kind |-> "status", old |-> oldVal, new |-> newVal]
FetchErrorLog == [kind |-> "fetchError", old |-> "", new |-> ""]

----------------------------------------------------------------------------
(* The pieces of the script the handlers are built from *)

\* The computed's getter, line 16.
TaskCountGetter == Len(tasks)

taskCount_stale == taskCountCache

\* Reading taskCount.value: the cached value unless a dependency changed.
taskCount == IF taskCountDirty THEN TaskCountGetter ELSE taskCountCache

WatchCallback_swapped(newVal, oldVal) == StatusLog(newVal, oldVal)

\* The watcher's callback, lines 20-22.
WatchCallback(newVal, oldVal) == StatusLog(oldVal, newVal)

WatchImmediate_on == TRUE

\* watch() is given no options: the callback does not run on registration.
WatchImmediate == FALSE

NextStatus_noElse(s) ==
    IF s = "active" THEN "pending"
    ELSE IF s = "pending" THEN "inactive"
    ELSE s

\* The if / else-if / else of toggleStatus, lines 27-33.
NextStatus(s) ==
    IF s = "active" THEN "pending"
    ELSE IF s = "pending" THEN "inactive"
    ELSE "active"

AddTaskAccepts_noTrim(s) == s # <<>>

AddTaskAccepts_unique(s) ==
    Trim(s) # <<>> /\ \A i \in 1..Len(tasks) : tasks[i] # s

\* The condition of addTask, line 37.
AddTaskAccepts(s) == Trim(s) # <<>>

AddTaskValue_trimmed(s) == Trim(s)

\* The value addTask pushes, line 38.
AddTaskValue(s) == s

Min(a, b) == IF a < b THEN a ELSE b
Max(a, b) == IF a > b THEN a ELSE b

SpliceStart_lastElement(len, start) ==
    IF start < 0 THEN Max(len + start, 0) ELSE Max(Min(start, len - 1), 0)

\* Array.prototype.splice's start: a negative start counts from the end.
SpliceStart(len, start) ==
    IF start < 0 THEN Max(len + start, 0) ELSE Min(start, len)

Splice_oneBased(s, start, deleteCount) ==
    LET from == SpliceStart(Len(s), start + 1)
        n == Min(Max(deleteCount, 0), Len(s) - from)
    IN  SubSeq(s, 1, from) \o SubSeq(s, from + n + 1, Len(s))

\* The array after s.splice(start, deleteCount); start is zero-based.
Splice(s, start, deleteCount) ==
    LET from == SpliceStart(Len(s), start)
        n == Min(Max(deleteCount, 0), Len(s) - from)
    IN  SubSeq(s, 1, from) \o SubSeq(s, from + n + 1, Len(s))

\* task.title, line 52: undefined when the record has no title.
TitleOf(item) == IF item.hasTitle THEN item.title ELSE Undefined

\* data.map(...) throws a TypeError: data is no array, or an element is null.
MapThrows(data) ==
    \/ data.kind # "array"
    \/ \E i \in 1..Len(data.items) : data.items[i].kind = "null"

MapTitles_reversed(items) ==
    [i \in 1..Len(items) |-> TitleOf(items[Len(items) + 1 - i])]

\* data.map((task) => task.title), line 52.
MapTitles(items) == [i \in 1..Len(items) |-> TitleOf(items[i])]

\* The titles projected before the first null element.
RECURSIVE TitlesBeforeThrow(_)
TitlesBeforeThrow(items) ==
    IF items = <<>> \/ Head(items).kind = "null"
    THEN <<>>
    ELSE <<TitleOf(Head(items))>> \o TitlesBeforeThrow(Tail(items))

LoaderOutcome_partial(data, oldTasks) ==
    IF MapThrows(data)
    THEN [threw |-> TRUE,
          tasks |-> IF data.kind = "array" THEN TitlesBeforeThrow(data.items)
                    ELSE oldTasks]
    ELSE [threw |-> FALSE, tasks |-> MapTitles(data.items)]

\* Line 52 inside the try: tasks is assigned only when map() has returned.
LoaderOutcome(data, oldTasks) ==
    IF MapThrows(data)
    THEN [threw |-> TRUE, tasks |-> oldTasks]
    ELSE [threw |-> FALSE, tasks |-> MapTitles(data.items)]

LoaderCatch_both(l) == Append(Append(l, FetchErrorLog), FetchErrorLog)

\* The catch block, lines 53-55.
LoaderCatch(l) == Append(l, FetchErrorLog)

StatusBlocks_noElse(s) ==
    (IF s = "active" THEN {"User is active"} ELSE {})
    \cup (IF s = "pending" THEN {"User is pending"} ELSE {})
    \cup (IF s # "active" THEN {"User is inactive"} ELSE {})

\* The v-if / v-else-if / v-else chain, lines 65-67: the paragraphs rendered.
StatusBlocks(s) ==
    IF s = "active" THEN {"User is active"}
    ELSE IF s = "pending" THEN {"User is pending"}
    ELSE {"User is inactive"}

\* v-show, line 71: the paragraph is displayed.
VShow(s) == s = "inactive"

\* :disabled, line 111.
Disabled(s) == s = "inactive"

RowKey_index(t, i) == i - 1

\* :key of the row of the i-th task, line 92.
RowKey(t, i) == t[i]

\* The v-for, lines 90-103: one row per task, in order; the row's button calls
\* deleteTask with the row's index.
Rows(t) ==
    [i \in 1..Len(t) |->
        [key |-> RowKey(t, i), text |-> t[i], index |-> i - 1,
         important |-> (i - 1 = 0),
         color |-> IF (i - 1) % 2 = 0 THEN "blue" ELSE "green"]]

\* The template's reads, lines 62-111.
RenderView ==
    [status |-> status, tasks |-> tasks, taskCount |-> taskCount,
     blocks |-> StatusBlocks(status), vShow |-> VShow(status),
     disabled |-> Disabled(status), rows |-> Rows(tasks)]

NoView ==
    [status |-> "", tasks |-> <<>>, taskCount |-> 0, blocks |-> {},
     vShow |-> FALSE, disabled |-> FALSE, rows |-> <<>>]

NoData == [kind |-> "none", items |-> <<>>]

\* The record of a handler step: what ran, its argument, the state it started from.
Step(op, index, data, caught) ==
    [op |-> op, index |-> index, data |-> data, caught |-> caught,
     tasks |-> tasks, newTask |-> newTask, status |-> status]

\* No row picked.
NoAim == [index |-> -1, text |-> <<>>]

Mounted == loaderPc # "setup"

\* A DOM event or a promise continuation is dispatched: the flush queue is empty.
Idle == Mounted /\ queue = {}

----------------------------------------------------------------------------
(* Construction: the state when <script setup> has run, lines 9-56 *)

Init ==
    /\ name = InitialName
    /\ status = "active"
    /\ tasks = InitialTasks
    /\ newTask = <<>>
    /\ taskCountCache = 0
    /\ taskCountDirty = TRUE
    /\ watchOld = "active"
    /\ queue = {}
    /\ view = NoView
    /\ log = IF WatchImmediate
             THEN <<WatchCallback("active", "undefined")>>
             ELSE <<>>
    /\ loaderPc = "setup"
    /\ response = NoResponse
    /\ uncaught = FALSE
    /\ statusHist = <<"active">>
    /\ requests = 0
    /\ loaderWrites = 0
    /\ userActed = FALSE
    /\ aimed = NoAim
    /\ last = Step("setup", 0, NoData, FALSE)

----------------------------------------------------------------------------
(* Mount: the first render, then the onMounted callback up to its first await *)

Mount ==
    /\ loaderPc = "setup"
    /\ view' = RenderView
    /\ taskCountCache' = taskCount
    /\ taskCountDirty' = FALSE
    /\ loaderPc' = "fetching"
    /\ requests' = requests + 1
    /\ last' = Step("mount", 0, NoData, FALSE)
    /\ UNCHANGED <<aimed, userActed, watchOld, name, status, tasks, newTask,
                   queue, log, response, uncaught, statusHist, loaderWrites>>

----------------------------------------------------------------------------
(* The scheduler's flush *)

\* The watcher's job: the callback runs when the watched value changed.
FlushWatch ==
    /\ "watch" \in queue
    /\ log' = IF status # watchOld
              THEN Append(log, WatchCallback(status, watchOld))
              ELSE log
    /\ watchOld' = status
    /\ queue' = queue \ {"watch"}
    /\ UNCHANGED <<aimed, name, status, tasks, newTask, taskCountCache,
                   taskCountDirty, view, loaderPc, response, uncaught,
                   statusHist, requests, loaderWrites, userActed, aimed, last>>

FlushRender_beforeWatch ==
    /\ "render" \in queue
    /\ view' = RenderView
    /\ taskCountCache' = taskCount
    /\ taskCountDirty' = FALSE
    /\ queue' = queue \ {"render"}
    /\ UNCHANGED <<aimed, userActed, watchOld, name, status, tasks, newTask,
                   log, loaderPc, response, uncaught, statusHist, requests,
                   loaderWrites, last>>

\* The component's update job: runs after the watcher's.
FlushRender ==
    /\ queue = {"render"}
    /\ view' = RenderView
    /\ taskCountCache' = taskCount
    /\ taskCountDirty' = FALSE
    /\ queue' = {}
    /\ UNCHANGED <<aimed, userActed, watchOld, name, status, tasks, newTask,
                   log, loaderPc, response, uncaught, statusHist, requests,
                   loaderWrites, last>>

----------------------------------------------------------------------------
(* The user's commands *)

\* The user picks a row of the list on screen, lines 90-103, to click its
\* button: the position of the row, and the task the row shows now.
Aim(i) ==
    /\ Idle
    /\ i \in 1..Len(view.rows)
    /\ aimed' = [index |-> view.rows[i].index, text |-> view.rows[i].text]
    /\ aimed' # aimed
    /\ UNCHANGED <<name, status, tasks, newTask, taskCountCache,
                   taskCountDirty, watchOld, queue, view, log, loaderPc,
                   response, uncaught, statusHist, requests, loaderWrites,
                   userActed, last>>

\* v-model, line 80: an input event writes the field's text to newTask.
SetInput(v) ==
    /\ Idle
    /\ v # newTask
    /\ newTask' = v
    /\ queue' = {"render"}
    /\ last' = Step("setInput", 0, NoData, FALSE)
    /\ UNCHANGED <<aimed, userActed, watchOld, name, status, tasks,
                   taskCountCache, taskCountDirty, view, log, loaderPc,
                   response, uncaught, statusHist, requests, loaderWrites>>

\* Lines 26-34.
ToggleStatus ==
    /\ Idle
    /\ Len(statusHist) <= MaxToggles
    /\ status' = NextStatus(status)
    /\ queue' = IF status' # status THEN {"watch", "render"} ELSE {}
    /\ statusHist' = Append(statusHist, status')
    /\ last' = Step("toggleStatus", 0, NoData, FALSE)
    /\ userActed' = TRUE
    /\ UNCHANGED <<aimed, watchOld, name, tasks, newTask, taskCountCache,
                   taskCountDirty, view, log, loaderPc, response, uncaught,
                   requests, loaderWrites>>

\* Lines 36-41.
AddTask ==
    /\ Idle
    /\ AddTaskAccepts(newTask) => Len(tasks) < MaxTasks
    /\ IF ~IsString(newTask)
       THEN /\ uncaught' = TRUE
            /\ UNCHANGED <<tasks, newTask, taskCountDirty, queue>>
       ELSE IF AddTaskAccepts(newTask)
       THEN /\ tasks' = Append(tasks, AddTaskValue(newTask))
            /\ newTask' = <<>>
            /\ taskCountDirty' = TRUE
            /\ queue' = {"render"}
            /\ UNCHANGED uncaught
       ELSE UNCHANGED <<tasks, newTask, taskCountDirty, queue, uncaught>>
    /\ last' = Step("addTask", 0, NoData, FALSE)
    /\ userActed' = TRUE
    /\ UNCHANGED <<aimed, watchOld, name, status, taskCountCache, view, log,
                   loaderPc, response, statusHist, requests, loaderWrites>>

DeleteTask_clearsInput(index) ==
    /\ Idle
    /\ tasks' = Splice(tasks, index, 1)
    /\ taskCountDirty' = (taskCountDirty \/ tasks' # tasks)
    /\ queue' = IF tasks' # tasks THEN {"render"} ELSE {}
    /\ last' = Step("deleteTask", index, NoData, FALSE)
    /\ userActed' = TRUE
    /\ newTask' = <<>>
    /\ UNCHANGED <<aimed, watchOld, name, status, taskCountCache,
                   view, log, loaderPc, response, uncaught, statusHist,
                   requests, loaderWrites>>

\* Lines 43-45.
DeleteTask(index) ==
    /\ Idle
    /\ tasks' = Splice(tasks, index, 1)
    /\ taskCountDirty' = (taskCountDirty \/ tasks' # tasks)
    /\ queue' = IF tasks' # tasks THEN {"render"} ELSE {}
    /\ last' = Step("deleteTask", index, NoData, FALSE)
    /\ userActed' = TRUE
    /\ UNCHANGED <<aimed, watchOld, name, status, newTask, taskCountCache,
                   view, log, loaderPc, response, uncaught, statusHist,
                   requests, loaderWrites>>

----------------------------------------------------------------------------
(* The loader after its awaits, lines 48-56 *)

\* fetch() rejects (no network): the catch block runs.
FetchRejects ==
    /\ Idle
    /\ loaderPc = "fetching"
    /\ log' = LoaderCatch(log)
    /\ loaderPc' = "done"
    /\ last' = Step("fetchRejects", 0, NoData, TRUE)
    /\ UNCHANGED <<aimed, userActed, watchOld, name, status, tasks, newTask,
                   taskCountCache, taskCountDirty, queue, view, response,
                   uncaught, statusHist, requests, loaderWrites>>

\* fetch() resolves with a Response, whatever its HTTP status: json() is called
\* and awaited.  The body is not read yet.
FetchResolves(ok) ==
    /\ Idle
    /\ loaderPc = "fetching"
    /\ response' = [ok |-> ok]
    /\ loaderPc' = "parsing"
    /\ last' = Step("fetchResolves", 0, NoData, FALSE)
    /\ UNCHANGED <<aimed, userActed, watchOld, name, status, tasks, newTask,
                   taskCountCache, taskCountDirty, queue, view, log, uncaught,
                   statusHist, requests, loaderWrites>>

\* response.json() rejects (the body is not JSON): the catch block runs.
JsonRejects ==
    /\ Idle
    /\ loaderPc = "parsing"
    /\ log' = LoaderCatch(log)
    /\ loaderPc' = "done"
    /\ last' = Step("jsonRejects", 0, InvalidBody, TRUE)
    /\ UNCHANGED <<aimed, userActed, watchOld, name, status, tasks, newTask,
                   taskCountCache, taskCountDirty, queue, view, response,
                   uncaught, statusHist, requests, loaderWrites>>

\* response.json() resolves with data: line 52 runs, or throws into the catch block.
JsonResolves(data) ==
    /\ Idle
    /\ loaderPc = "parsing"
    /\ LET out == LoaderOutcome(data, tasks)
           wrote == ~out.threw \/ out.tasks # tasks
       IN  /\ tasks' = out.tasks
           /\ taskCountDirty' = (taskCountDirty \/ wrote)
           /\ queue' = IF wrote THEN {"render"} ELSE {}
           /\ loaderWrites' = loaderWrites + (IF wrote THEN 1 ELSE 0)
           /\ log' = IF out.threw THEN LoaderCatch(log) ELSE log
           /\ last' = Step("jsonResolves", 0, data, out.threw)
    /\ loaderPc' = "done"
    /\ UNCHANGED <<aimed, userActed, watchOld, name, status, newTask,
                   taskCountCache, view, response, uncaught, statusHist,
                   requests>>

----------------------------------------------------------------------------

Next ==
    \/ Mount
    \/ FlushWatch
    \/ FlushRender
    \/ \E v \in Inputs : SetInput(v)
    \/ ToggleStatus
    \/ AddTask
    \/ \E index \in 0..MaxTasks : DeleteTask(index)
    \/ FetchRejects
    \/ \E ok \in BOOLEAN : FetchResolves(ok)
    \/ JsonRejects
    \/ \E data \in JsonValues : JsonResolves(data)

Spec == Init /\ [][Next]_vars

\* The steps that read or write the task list, with the user picking rows of the
\* screen before clicking: the status toggle and its watcher are left out.
ListNext ==
    \/ Mount
    \/ FlushRender
    \/ \E i \in 1..MaxTasks : Aim(i)
    \/ \E v \in Inputs : SetInput(v)
    \/ AddTask
    \/ \E index \in 0..MaxTasks : DeleteTask(index)
    \/ FetchRejects
    \/ \E ok \in BOOLEAN : FetchResolves(ok)
    \/ JsonRejects
    \/ \E data \in JsonValues : JsonResolves(data)

SpecAim == Init /\ [][ListNext]_vars

----------------------------------------------------------------------------
(* Vocabulary of the properties *)

\* The text is empty or holds whitespace only.
IsBlank(s) == \A i \in 1..Len(s) : s[i] \in Whitespace

StatusCycle ==
    { <<"active", "pending">>, <<"pending", "inactive">>, <<"inactive", "active">> }

IsStatusLog(e) == e.kind = "status"
IsFetchErrorLog(e) == e.kind = "fetchError"

StatusLogs == SelectSeq(log, IsStatusLog)
FetchErrorLogs == SelectSeq(log, IsFetchErrorLog)

\* Number of toggleStatus invocations so far.
Toggles == Len(statusHist) - 1

----------------------------------------------------------------------------
(* Properties *)

\* C1: status is always one of active, pending, inactive; every toggle moves
\* active to pending, pending to inactive, inactive to active, whatever other
\* commands run in between; and the status after three consecutive toggles is
\* the status they started from.
C1_StatusCycle ==
    /\ status \in StatusValues
    /\ status = statusHist[Len(statusHist)]
    /\ \A k \in 1..Toggles : <<statusHist[k], statusHist[k + 1]>> \in StatusCycle
    /\ \A k \in 1..(Toggles - 2) : statusHist[k + 3] = statusHist[k]

\* Three consecutive toggles have run from each of the three values, with an
\* add, a delete or a load in between.
C1_Witness ==
    /\ Toggles >= 5
    /\ statusHist[3] = "inactive"
    /\ statusHist[6] = "inactive"
    /\ tasks # InitialTasks

\* C2: taskCount, whenever it is read, equals the length of the task list,
\* after any sequence of adds, deletes and loads.
C2_TaskCountFresh == taskCount = Len(tasks)

\* The list has just been replaced by a load of another length, and the cached
\* count is the one of the list before.
C2_Witness ==
    /\ last.op = "jsonResolves"
    /\ ~last.caught
    /\ userActed
    /\ Len(tasks) # Len(last.tasks)
    /\ taskCountCache = Len(last.tasks)

\* C3: addTask on an empty or whitespace-only newTask changes neither the task
\* list nor newTask, and throws nothing.
C3_AddBlankNoOp ==
    (last.op = "addTask" /\ IsBlank(last.newTask))
        => /\ tasks = last.tasks
           /\ newTask = last.newTask
           /\ ~uncaught

\* addTask has run on a text of a tab and a space.
C3_Witness ==
    /\ last.op = "addTask"
    /\ last.newTask = <<"\t", " ">>
    /\ newTask = <<"\t", " ">>

\* C4: addTask on a newTask that is not blank appends the untrimmed text as the
\* last element, keeps the elements before it, and empties newTask.
C4_AddAppendsUntrimmed ==
    (last.op = "addTask" /\ ~IsBlank(last.newTask))
        => /\ Len(tasks) = Len(last.tasks) + 1
           /\ \A i \in 1..Len(last.tasks) : tasks[i] = last.tasks[i]
           /\ tasks[Len(tasks)] = last.newTask
           /\ newTask = <<>>

\* addTask has run on " a ": the text is the new last element, spaces included.
C4_Witness ==
    /\ last.op = "addTask"
    /\ last.newTask = <<" ", "a", " ">>
    /\ last.tasks = InitialTasks
    /\ tasks = <<TaskOne, TaskTwo, TaskThree, <<" ", "a", " ">> >>

\* C5: deleteTask(index) with 0 <= index < length removes the element at that
\* position: the elements before it stay, the ones after it move down by one,
\* and the length decreases by one.
C5_DeleteRemovesAtIndex ==
    (last.op = "deleteTask" /\ 0 <= last.index /\ last.index < Len(last.tasks))
        => /\ Len(tasks) = Len(last.tasks) - 1
           /\ \A i \in 1..last.index : tasks[i] = last.tasks[i]
           /\ \A i \in (last.index + 1)..Len(tasks) : tasks[i] = last.tasks[i + 1]

\* deleteTask(1) has run on the three initial tasks.
C5_Witness ==
    /\ last.op = "deleteTask"
    /\ last.index = 1
    /\ last.tasks = InitialTasks
    /\ tasks = <<TaskOne, TaskThree>>

\* C6: no log entry is written at mount; every toggleStatus invocation yields
\* exactly one status-change entry, written by the watcher's job in the flush
\* of the same event-loop turn, the k-th entry holding the old and the new
\* status of the k-th toggle; typing, addTask, deleteTask and the loader never
\* add one.
C6_OneLogPerToggle ==
    /\ (loaderPc = "setup" \/ last.op = "mount") => log = <<>>
    /\ Len(StatusLogs) = (IF "watch" \in queue THEN Toggles - 1 ELSE Toggles)
    /\ \A k \in 1..Len(StatusLogs) :
           StatusLogs[k] = StatusLog(statusHist[k], statusHist[k + 1])

\* Four toggles have been logged, around a failed load and a change of the list.
C6_Witness ==
    /\ Toggles = 4
    /\ queue = {}
    /\ Len(StatusLogs) = 4
    /\ Len(log) = 5
    /\ log[3] = FetchErrorLog
    /\ StatusLogs[4] = StatusLog("active", "pending")
    /\ tasks # InitialTasks

\* C7: when response.json() resolves with an array of records, the task list
\* right after the loader's step is the sequence of their title fields, in
\* order (undefined for a record without one); nothing of the list before it,
\* initial or edited by the user, is kept.
C7_LoadReplaces ==
    (/\ last.op = "jsonResolves"
     /\ last.data.kind = "array"
     /\ \A i \in 1..Len(last.data.items) : last.data.items[i].kind = "record")
        => /\ ~last.caught
           /\ Len(tasks) = Len(last.data.items)
           /\ \A i \in 1..Len(tasks) :
                  tasks[i] = (IF last.data.items[i].hasTitle
                              THEN last.data.items[i].title
                              ELSE Undefined)

\* The load of [{title: X}, {title: Y}] has replaced a list of four tasks the
\* user had edited.
C7_Witness ==
    /\ last.op = "jsonResolves"
    /\ userActed
    /\ Len(last.tasks) = 4
    /\ last.tasks[4] = <<" ", "a", " ">>
    /\ Len(last.data.items) = 2
    /\ last.data.items[1].title = TitleX
    /\ last.data.items[2].title = TitleY
    /\ tasks = <<TitleX, TitleY>>

\* C8: when the loader fails (fetch rejects, json() rejects, or map() throws),
\* its step leaves tasks, status and newTask as they were, also when map()
\* throws after it has projected some titles; with no command run, the task
\* list after a failed load is the three initial tasks.
C8_FailureKeepsState ==
    /\ last.caught
           => /\ tasks = last.tasks
              /\ status = last.status
              /\ newTask = last.newTask
    /\ (loaderPc = "done" /\ Len(FetchErrorLogs) > 0 /\ ~userActed)
           => tasks = InitialTasks

\* map() has thrown on the null that follows a record with a title, on a list
\* the user had edited.
C8_Witness ==
    /\ last.op = "jsonResolves"
    /\ last.caught
    /\ Len(last.data.items) = 2
    /\ last.data.items[1].hasTitle
    /\ last.data.items[2].kind = "null"
    /\ userActed
    /\ Len(tasks) = 4
    /\ tasks = last.tasks

LoaderFinishes == {"fetchRejects", "jsonRejects", "jsonResolves"}

\* C9: fetch() is called once, at mount, and never again; the loader ends
\* with exactly one of an assignment to tasks and a fetch-failure log entry,
\* and has produced neither before it ends; once it has ended, a step that
\* changes the task list is an addTask or a deleteTask.
C9_LoaderOnce ==
    /\ requests = (IF loaderPc = "setup" THEN 0 ELSE 1)
    /\ loaderWrites + Len(FetchErrorLogs) = (IF loaderPc = "done" THEN 1 ELSE 0)
    /\ (loaderPc = "done" /\ last.op \notin LoaderFinishes /\ tasks # last.tasks)
           => last.op \in {"addTask", "deleteTask"}

\* The loader has replaced the list, and a later deleteTask has changed it.
C9_Witness ==
    /\ loaderPc = "done"
    /\ requests = 1
    /\ loaderWrites = 1
    /\ Len(FetchErrorLogs) = 0
    /\ last.op = "deleteTask"
    /\ tasks # last.tasks

\* The response.json() step ran on a response whose status is not a success.
NonSuccessResponse ==
    /\ last.op \in {"jsonRejects", "jsonResolves"}
    /\ ~response.ok

\* The payload is not an array of records with a title.
MalformedPayload ==
    \/ last.op = "jsonRejects"
    \/ /\ last.op = "jsonResolves"
       /\ \/ last.data.kind # "array"
          \/ \E i \in 1..Len(last.data.items) :
                 ~(last.data.items[i].kind = "record" /\ last.data.items[i].hasTitle)

\* C10: a network failure, a non-success response and a malformed payload all
\* end in the catch block: one fetch-failure log entry, task list unchanged.
C10_FailuresOnePath ==
    (last.op = "fetchRejects" \/ NonSuccessResponse \/ MalformedPayload)
        => /\ last.caught
           /\ Len(FetchErrorLogs) = 1
           /\ tasks = last.tasks

----------------------------------------------------------------------------
(* Vocabulary of the properties about the rendered output *)

\* The paragraph the template has for a status.
Paragraph(s) ==
    CASE s = "active" -> "User is active"
      [] s = "pending" -> "User is pending"
      [] OTHER -> "User is inactive"

\* Every status-dependent output on screen is the one of status s.
ViewShows(s) ==
    /\ view.blocks = {Paragraph(s)}
    /\ view.vShow = (s = "inactive")
    /\ view.disabled = (s = "inactive")

\* Some status-dependent output on screen has the value it takes for status s
\* and does not take for the status before s in the cycle.
ViewReflects(s) ==
    \/ Paragraph(s) \in view.blocks
    \/ (s = "inactive" /\ (view.vShow \/ view.disabled))
    \/ (s = "active" /\ (~view.vShow \/ ~view.disabled))

\* The log holds the entry of the latest toggle.
LatestToggleLogged ==
    /\ Len(StatusLogs) = Toggles
    /\ Toggles >= 1 => StatusLogs[Toggles] = StatusLog(statusHist[Toggles], status)

\* C11 as stated: the entry of a change from A to B is in the log as soon as
\* status is B (it is written synchronously with the change), and no output on
\* screen reflects B before it.
C11_LogSynchronous ==
    Mounted =>
        /\ LatestToggleLogged
        /\ (Toggles >= 1 /\ ViewReflects(status)) => LatestToggleLogged

\* C11, amended: the entry of a change from A to B is written by the watcher's
\* job in the flush that follows the handler, in the same event-loop turn and
\* before the re-render: while it is not written the screen shows A in all
\* three outputs, the screen reflects B only when the entry is in the log, and
\* when the turn has ended the entry is in the log.
C11_LogBeforeRender ==
    Mounted =>
        /\ "watch" \in queue => (~LatestToggleLogged /\ ViewShows(statusHist[Toggles]))
        /\ (Toggles >= 1 /\ ViewReflects(status)) => LatestToggleLogged
        /\ queue = {} => (LatestToggleLogged /\ ViewShows(status))

\* The watcher's job has written the entry of the change to inactive, and the
\* screen still shows pending: the re-render is queued behind it.
C11_Witness ==
    /\ queue = {"render"}
    /\ last.op = "toggleStatus"
    /\ status = "inactive"
    /\ ViewShows("pending")
    /\ LatestToggleLogged
    /\ log[Len(log)] = StatusLog("pending", "inactive")

Occurrences(t, e) == Cardinality({i \in 1..Len(t) : t[i] = e})

\* deleteTask has just run, called by a click on the position the user had
\* picked, and that position exists in the list.
ClickedWhereAimed ==
    /\ last.op = "deleteTask"
    /\ "render" \in queue
    /\ aimed # NoAim
    /\ last.index = aimed.index
    /\ last.index < Len(last.tasks)

DuplicateKeyOnScreen ==
    \E i, j \in 1..Len(view.rows) : i # j /\ view.rows[i].key = view.rows[j].key

LoaderSteps ==
    {"mount", "fetchRejects", "fetchResolves", "jsonRejects", "jsonResolves"}

\* C15: toggleStatus leaves the task list and newTask as they were; addTask
\* and deleteTask leave status as it was; deleteTask leaves newTask as it was;
\* the loader's steps leave status and newTask as they were; name always has
\* its initial value.
C15_Frames ==
    /\ name = InitialName
    /\ last.op = "toggleStatus" => (tasks = last.tasks /\ newTask = last.newTask)
    /\ last.op \in {"addTask", "deleteTask"} => status = last.status
    /\ last.op = "deleteTask" => newTask = last.newTask
    /\ last.op \in LoaderSteps => (status = last.status /\ newTask = last.newTask)

\* deleteTask has removed a task of a loaded list while the input held " a "
\* and status was pending.
C15_Witness ==
    /\ last.op = "deleteTask"
    /\ tasks # last.tasks
    /\ loaderWrites = 1
    /\ newTask = <<" ", "a", " ">>
    /\ status = "pending"
    /\ name = InitialName

\* C16: deleteTask(index) with index at or beyond the length of the task
\* list, on an empty list too, leaves the list as it was and throws nothing.
C16_DeleteOutOfRangeNoOp ==
    (last.op = "deleteTask" /\ last.index >= Len(last.tasks))
        => /\ tasks = last.tasks
           /\ ~uncaught

\* deleteTask(3) has run on the three initial tasks.
C16_Witness ==
    /\ last.op = "deleteTask"
    /\ last.index = 3
    /\ last.tasks = InitialTasks
    /\ tasks = InitialTasks

\* No element of the task list is an empty or whitespace-only text.
NoBlankTask ==
    \A i \in 1..Len(tasks) : ~(IsString(tasks[i]) /\ IsBlank(tasks[i]))

\* The last handler step is the load of a payload with a blank title.
LoadedBlankTitle ==
    /\ last.op = "jsonResolves"
    /\ \E i \in 1..Len(last.data.items) :
           last.data.items[i].hasTitle /\ IsBlank(last.data.items[i].title)

====
